---------------------------- MODULE Spec2Model ----------------------------
(***************************************************************************)
(* Model of resume.py: bullet cleanup (clean_bullets), bullet generation   *)
(* with its fallback (generate_bullet_points), the replacement of the      *)
(* first project of a document (replace_first_project_safely) and the      *)
(* button handler that chains them.                                        *)
(*                                                                         *)
(* A Python str is a sequence of one-character strings.  The bullet glyph  *)
(* U+2022 is not ASCII and is written as the single character BULLET.      *)
(* A paragraph is its sequence of runs; a run is [text, bold] with bold    *)
(* "True", "False" or "None" as run.bold reports it.  Font size, alignment *)
(* and indentation are written by the code and never read: they are left   *)
(* out.  Indices (start_idx, end_idx) are 0-based as in the code, so       *)
(* doc.paragraphs[i] is paragraphs[i + 1].                                 *)
(***************************************************************************)
EXTENDS Integers, Sequences, FiniteSets, TLC

VARIABLES
    pc,             \* where the script is
    raw_lines,      \* the lines raw/content was built from (history)
    raw,            \* clean_bullets' argument in a direct call
    cleaned,        \* clean_bullets' return value in a direct call
    content,        \* resp.choices[0].message.content (None or a str)
    subject,        \* the Project Title text input
    bullet_points,  \* generate_bullet_points' return value
    uploaded,       \* the paragraphs of the uploaded file
    doc0,           \* doc.paragraphs when replace_first_project_safely is entered (history)
    paragraphs,     \* doc.paragraphs
    new_title,      \* argument new_title
    bullets_arg,    \* argument new_bullets as passed (history)
    new_bullets,    \* local new_bullets after line 127
    section_found,  \* local section_found
    start_idx,      \* local start_idx
    end_idx,        \* local end_idx
    result          \* how the call ended: [kind, msg]

vars == <<pc, raw_lines, raw, cleaned, content, subject, bullet_points, uploaded,
          doc0, paragraphs, new_title, bullets_arg, new_bullets, section_found,
          start_idx, end_idx, result>>

-----------------------------------------------------------------------------
(* Bounds *)

MaxLines == 5       \* lines of a raw text given to clean_bullets
MaxContentLines == 3 \* lines of a generator output in the button handler
MaxBlocks == 4      \* paragraphs of a document
MaxBullets == 2     \* bullets passed to replace_first_project_safely directly

-----------------------------------------------------------------------------
(* Python str and list primitives *)

\* None, where a str is expected: no str, since every character is one long
None == <<"None">>

BULLET == "U+2022"

Whitespace == {" ", "\t", "\n", "\r", "\f"}

LineBreaks == {"\n", "\r", "\f"}

Digits == {"0", "1", "2", "3", "4", "5", "6", "7", "8", "9"}

LowerCase ==
    <<"a", "b", "c", "d", "e", "f", "g", "h", "i", "j", "k", "l", "m",
      "n", "o", "p", "q", "r", "s", "t", "u", "v", "w", "x", "y", "z">>

UpperCase ==
    <<"A", "B", "C", "D", "E", "F", "G", "H", "I", "J", "K", "L", "M",
      "N", "O", "P", "Q", "R", "S", "T", "U", "V", "W", "X", "Y", "Z">>

\* s[a:b] with 0 <= a: Python slice of a sequence, 0-based, end exclusive, clamped.
Slice(s, a, b) ==
    LET hi == IF b > Len(s) THEN Len(s) ELSE b
    IN  IF a >= hi THEN <<>> ELSE SubSeq(s, a + 1, hi)

\* str.lstrip(chars)
RECURSIVE lstrip(_, _)
lstrip(s, chars) ==
    IF s # <<>> /\ Head(s) \in chars THEN lstrip(Tail(s), chars) ELSE s

\* str.rstrip(chars)
RECURSIVE rstrip(_, _)
rstrip(s, chars) ==
    IF s # <<>> /\ s[Len(s)] \in chars
    THEN rstrip(SubSeq(s, 1, Len(s) - 1), chars)
    ELSE s

\* str.strip()
strip(s) == rstrip(lstrip(s, Whitespace), Whitespace)

\* the upper-case form of each lower-case letter
ToUpper ==
    [c \in {LowerCase[k] : k \in 1..Len(LowerCase)} |->
        UpperCase[CHOOSE k \in 1..Len(LowerCase) : LowerCase[k] = c]]

upper_char(c) == IF c \in DOMAIN ToUpper THEN ToUpper[c] ELSE c

\* str.upper()
upper(s) == [k \in 1..Len(s) |-> upper_char(s[k])]

\* needle in hay
Contains(hay, needle) ==
    \E k \in 0..(Len(hay) - Len(needle)) : \A j \in 1..Len(needle) : hay[k + j] = needle[j]

\* str.splitlines(): "\r\n" is one line break; no empty last line.
RECURSIVE splitlines_from(_, _, _)
splitlines_from(s, cur, out) ==
    IF s = <<>> THEN (IF cur = <<>> THEN out ELSE Append(out, cur))
    ELSE IF Head(s) = "\r" /\ Len(s) >= 2 /\ s[2] = "\n"
         THEN splitlines_from(Slice(s, 2, Len(s)), <<>>, Append(out, cur))
    ELSE IF Head(s) \in LineBreaks
         THEN splitlines_from(Tail(s), <<>>, Append(out, cur))
    ELSE splitlines_from(Tail(s), Append(cur, Head(s)), out)

splitlines(s) == splitlines_from(s, <<>>, <<>>)

\* sep.join(parts)
RECURSIVE join(_, _)
join(sep, parts) ==
    IF parts = <<>> THEN <<>>
    ELSE IF Len(parts) = 1 THEN parts[1]
    ELSE parts[1] \o sep \o join(sep, Tail(parts))

\* [x for x in s if keep(x)] then mapped: the comprehensions of the code
RECURSIVE StrippedNonBlank(_)
StrippedNonBlank(ss) ==
    IF ss = <<>> THEN <<>>
    ELSE IF strip(Head(ss)) # <<>>
         THEN <<strip(Head(ss))>> \o StrippedNonBlank(Tail(ss))
         ELSE StrippedNonBlank(Tail(ss))

-----------------------------------------------------------------------------
(* clean_bullets *)

\* the body of the for loop: one line to its bullet text ("" when nothing is left)
clean_line(ln) ==
    LET ln2 == strip(lstrip(lstrip(ln, {BULLET}), {"-"}))
    IN  IF Len(ln2) >= 3 /\ ln2[1] \in Digits
           /\ Slice(ln2, 1, 3) \in {<<".", " ">>, <<")", " ">>}
        THEN strip(Slice(ln2, 3, Len(ln2)))
        ELSE ln2

RECURSIVE collect_bullets(_)
collect_bullets(lines) ==
    IF lines = <<>> THEN <<>>
    ELSE LET ln2 == clean_line(Head(lines))
         IN  IF ln2 # <<>>
             THEN <<ln2>> \o collect_bullets(Tail(lines))
             ELSE collect_bullets(Tail(lines))

\* variant: bullets[:2]
KeepTwo(bullets) == Slice(bullets, 0, 2)

\* bullets = bullets[:3]
Truncate(bullets) == Slice(bullets, 0, 3)

clean_bullets(text) ==
    IF text = <<>> THEN <<>>
    ELSE Truncate(collect_bullets(StrippedNonBlank(splitlines(text))))

-----------------------------------------------------------------------------
(* generate_bullet_points *)

FALLBACK_1 ==
    <<"B", "u", "i", "l", "t", " ", "a", "n", " ", "e", "n", "d", "-", "t", "o", "-",
    "e", "n", "d", " ", "p", "r", "o", "j", "e", "c", "t", " ", "d", "e", "l", "i", "v",
    "e", "r", "a", "b", "l", "e", " ", "f", "r", "o", "m", " ", "r", "e", "q", "u", "i",
    "r", "e", "m", "e", "n", "t", "s", " ", "t", "h", "r", "o", "u", "g", "h", " ", "v",
    "a", "l", "i", "d", "a", "t", "i", "o", "n", ",", " ", "e", "m", "p", "h", "a", "s",
    "i", "z", "i", "n", "g", " ", "c", "l", "a", "r", "i", "t", "y", " ", "a", "n", "d",
    " ", "m", "e", "a", "s", "u", "r", "a", "b", "l", "e", " ", "i", "m", "p", "a", "c",
    "t", ".">>

FALLBACK_2 ==
    <<"I", "m", "p", "l", "e", "m", "e", "n", "t", "e", "d", " ", "r", "e", "l", "i",
    "a", "b", "l", "e", " ", "d", "a", "t", "a", " ", "p", "r", "o", "c", "e", "s", "s",
    "i", "n", "g", " ", "a", "n", "d", " ", "a", "n", "a", "l", "y", "s", "i", "s", " ",
    "w", "o", "r", "k", "f", "l", "o", "w", " ", "w", "i", "t", "h", " ", "c", "l", "e",
    "a", "n", " ", "d", "o", "c", "u", "m", "e", "n", "t", "a", "t", "i", "o", "n", " ",
    "a", "n", "d", " ", "r", "e", "p", "r", "o", "d", "u", "c", "i", "b", "i", "l", "i",
    "t", "y", ".">>

FallbackBullets == Slice(<<FALLBACK_1, FALLBACK_2>>, 0, 3)

\* variant: if len(bullets) < 1
FallbackWhenEmpty(bullets) == IF Len(bullets) < 1 THEN FallbackBullets ELSE bullets

\* if len(bullets) < 2: bullets = [...]
WithFallback(bullets) == IF Len(bullets) < 2 THEN FallbackBullets ELSE bullets

\* from the generator's reply to the returned list
generate_bullet_points(reply) ==
    LET text == strip(IF reply = None THEN <<>> ELSE reply)   \* (content or "").strip()
    IN  WithFallback(clean_bullets(text))
-----------------------------------------------------------------------------
(* python-docx paragraphs and runs *)

\* bold is "True", "False" or "None" (inherited), as run.bold reports it
Run(text, bold) == [text |-> text, bold |-> bold]

\* paragraph.text: the runs' texts, concatenated
RECURSIVE para_text(_)
para_text(para) ==
    IF para = <<>> THEN <<>> ELSE Head(para).text \o para_text(Tail(para))

\* paragraph.insert_paragraph_before("") then format_title: one bold run
format_title(text) == <<Run(text, "True")>>

\* variant: the run holds the text without the glyph
format_bullet_plain(text) == <<Run(text, "None")>>

\* paragraph.insert_paragraph_before("") then format_bullet: one run, bold unset
format_bullet(text) == <<Run(<<BULLET, " ">> \o text, "None")>>

\* the list doc.paragraphs with a new paragraph before doc.paragraphs[idx]
insert_paragraph_before(ps, idx, para) ==
    Slice(ps, 0, idx) \o <<para>> \o Slice(ps, idx, Len(ps))

\* delete_paragraph(doc.paragraphs[idx])
delete_paragraph(ps, idx) == Slice(ps, 0, idx) \o Slice(ps, idx + 1, Len(ps))

-----------------------------------------------------------------------------
(* replace_first_project_safely *)

HEADING ==
    <<"P", "R", "O", "J", "E", "C", "T", " ", "E", "X", "P", "E", "R", "I", "E", "N",
    "C", "E">>

MsgSectionNotFound == "Could not find 'PROJECT EXPERIENCE' section in the document."

MsgRecordNotFound ==
    "Found 'PROJECT EXPERIENCE' but couldn't locate first project entry below it."

NoResult == [kind |-> "none", msg |-> ""]

Returned == [kind |-> "return", msg |-> ""]

ValueError(msg) == [kind |-> "ValueError", msg |-> msg]

IndexError == [kind |-> "IndexError", msg |-> "list index out of range"]

\* new_bullets = [bp.strip() for bp in new_bullets if bp and bp.strip()]
filter_bullets(bullets) == StrippedNonBlank(bullets)

\* variant: "PROJECT EXPERIENCE" in para.text
is_heading_case_sensitive(para) == Contains(para_text(para), HEADING)

\* "PROJECT EXPERIENCE" in para.text.upper()
is_heading(para) == Contains(upper(para_text(para)), HEADING)

\* para.runs and para.runs[0].bold
first_run_bold(para) == para # <<>> /\ para[1].bold = "True"

\* the for loop over enumerate(doc.paragraphs), from index i on; st holds the
\* three locals
RECURSIVE scan(_, _, _)
scan(ps, i, st) ==
    IF i >= Len(ps) THEN st
    ELSE LET para == ps[i + 1]
         IN  IF is_heading(para)
             THEN scan(ps, i + 1, [st EXCEPT !.section_found = TRUE])
             ELSE IF st.section_found /\ st.start_idx = -1 /\ strip(para_text(para)) # <<>>
             THEN scan(ps, i + 1, [st EXCEPT !.start_idx = i])
             ELSE IF st.section_found /\ st.start_idx # -1 /\ first_run_bold(para)
             THEN [st EXCEPT !.end_idx = i]
             ELSE scan(ps, i + 1, st)

find_section(ps) ==
    scan(ps, 0, [section_found |-> FALSE, start_idx |-> -1, end_idx |-> -1])

\* variant: the two checks in the other order
check_found_swapped(found, start) ==
    IF start = -1 THEN ValueError(MsgRecordNotFound)
    ELSE IF ~found THEN ValueError(MsgSectionNotFound)
    ELSE NoResult

\* the two raise statements after the loop
check_found(found, start) ==
    IF ~found THEN ValueError(MsgSectionNotFound)
    ELSE IF start = -1 THEN ValueError(MsgRecordNotFound)
    ELSE NoResult

\* variant: the end of the document taken as the last index
fallback_end_short(ps, start) == Len(ps) - 1

\* if end_idx == -1: the first blank paragraph after start_idx, else the end
fallback_end(ps, start) ==
    LET blank == {j \in (start + 1)..(Len(ps) - 1) : strip(para_text(ps[j + 1])) = <<>>}
    IN  IF blank # {}
        THEN CHOOSE j \in blank : \A k \in blank : j <= k
        ELSE Len(ps)

\* for idx in reversed(range(start_idx, end_idx)): delete_paragraph(...), from
\* index `idx` down
RECURSIVE delete_down(_, _, _)
delete_down(ps, start, idx) ==
    IF idx < start THEN ps ELSE delete_down(delete_paragraph(ps, idx), start, idx - 1)

\* variant: range(start_idx, end_idx + 1)
delete_old_content_inclusive(ps, start, end) == delete_down(ps, start, end)

delete_old_content(ps, start, end) == delete_down(ps, start, end - 1)

\* for bullet in reversed(new_bullets): doc.paragraphs[insert_idx] raises
\* IndexError when insert_idx is past the last paragraph
RECURSIVE insert_bullets(_, _, _)
insert_bullets(ps, insert_idx, bullets) ==
    IF bullets = <<>> THEN [raised |-> FALSE, ps |-> ps]
    ELSE IF insert_idx >= Len(ps) THEN [raised |-> TRUE, ps |-> ps]
    ELSE insert_bullets(
             insert_paragraph_before(ps, insert_idx, format_bullet(bullets[Len(bullets)])),
             insert_idx, Slice(bullets, 0, Len(bullets) - 1))

\* the "Insert new content" part: bullets in reverse, then the title
insert_new_content(ps, insert_idx, title, bullets) ==
    LET r == insert_bullets(ps, insert_idx, bullets)
    IN  IF r.raised THEN r
        ELSE IF insert_idx >= Len(r.ps) THEN [raised |-> TRUE, ps |-> r.ps]
        ELSE [raised |-> FALSE,
              ps |-> insert_paragraph_before(r.ps, insert_idx, format_title(title))]

-----------------------------------------------------------------------------
(* Inputs *)

Seqs(S, n) == UNION {[1..k -> S] : k \in 0..n}

HeadingPara ==
    <<Run(<<"P", "r", "o", "j", "e", "c", "t", " ", "E", "x", "p", "e", "r", "i", "e",
            "n", "c", "e", ":">>, "True")>>

EmptyPara == <<>>

BlankBoldPara == <<Run(<<" ">>, "True")>>

TitlePara == <<Run(<<"O", "l", "d">>, "True")>>

PlainPara == <<Run(<<"b">>, "False"), Run(<<"1">>, "True")>>

ParagraphKinds == {HeadingPara, EmptyPara, BlankBoldPara, TitlePara, PlainPara}

Docs == Seqs(ParagraphKinds, MaxBlocks)

Titles == {<<"N", "e", "w">>}

BulletTexts == {<<"X">>, <<" ", "Y", " ">>, <<" ">>}

\* lists of pairwise different bullets: a repeated bullet adds no case
BulletLists ==
    {bs \in Seqs(BulletTexts, MaxBullets) :
        \A j, k \in 1..Len(bs) : bs[j] = bs[k] => j = k}

-----------------------------------------------------------------------------
(* replace_first_project_safely, called directly *)

NotCleaning == raw_lines = <<>> /\ raw = <<>> /\ cleaned = <<>>

NotInUI ==
    /\ content = None /\ subject = <<>> /\ bullet_points = <<>> /\ uploaded = <<>>

Entered(ps, title, bullets) ==
    /\ doc0 = ps /\ paragraphs = ps
    /\ new_title = title
    /\ bullets_arg = bullets /\ new_bullets = bullets
    /\ section_found = FALSE /\ start_idx = -1 /\ end_idx = -1
    /\ result = NoResult

Init ==
    /\ pc = "replace"
    /\ NotCleaning /\ NotInUI
    /\ \E ps \in Docs, title \in Titles, bullets \in BulletLists :
           Entered(ps, title, bullets)

\* lines 127-162: the bullets are filtered, the section and the first project
\* are looked for, and the call raises or knows [start_idx, end_idx)
Locate ==
    /\ pc = "replace"
    /\ LET st == find_section(paragraphs)
           err == check_found(st.section_found, st.start_idx)
       IN  /\ new_bullets' = filter_bullets(new_bullets)
           /\ section_found' = st.section_found
           /\ start_idx' = st.start_idx
           /\ result' = err
           /\ IF err # NoResult
              THEN /\ pc' = "raised"
                   /\ end_idx' = st.end_idx
              ELSE /\ pc' = "delete"
                   /\ end_idx' = IF st.end_idx = -1
                                 THEN fallback_end(paragraphs, st.start_idx)
                                 ELSE st.end_idx
    /\ UNCHANGED <<raw_lines, raw, cleaned, content, subject, bullet_points, uploaded,
                   doc0, paragraphs, new_title, bullets_arg>>

\* lines 164-166
DeleteOldContent ==
    /\ pc = "delete"
    /\ paragraphs' = delete_old_content(paragraphs, start_idx, end_idx)
    /\ pc' = "insert"
    /\ UNCHANGED <<raw_lines, raw, cleaned, content, subject, bullet_points, uploaded,
                   doc0, new_title, bullets_arg, new_bullets, section_found,
                   start_idx, end_idx, result>>

\* lines 168-178
InsertNewContent ==
    /\ pc = "insert"
    /\ LET r == insert_new_content(paragraphs, start_idx, new_title, new_bullets)
       IN  /\ paragraphs' = r.ps
           /\ result' = IF r.raised THEN IndexError ELSE Returned
           /\ pc' = IF r.raised THEN "raised" ELSE "returned"
    /\ UNCHANGED <<raw_lines, raw, cleaned, content, subject, bullet_points, uploaded,
                   doc0, new_title, bullets_arg, new_bullets, section_found,
                   start_idx, end_idx>>

Next == Locate \/ DeleteOldContent \/ InsertNewContent

Spec == Init /\ [][Next]_vars
-----------------------------------------------------------------------------
(* clean_bullets, called directly *)

LineA == <<BULLET, " ", "a">>

LineGlyphOnly == <<BULLET>>

LineEnumerated == <<BULLET, "1", ".", " ", "c", "\r">>

LineGlyphHyphenGlyph == <<BULLET, "-", BULLET, "e">>

LineHyphen == <<"-", " ", "b", " ">>

LineBlank == <<" ">>

RawLineKinds ==
    {LineA, LineGlyphOnly, LineEnumerated, LineGlyphHyphenGlyph, LineHyphen, LineBlank}

NotReplacing ==
    /\ doc0 = <<>> /\ paragraphs = <<>> /\ new_title = <<>>
    /\ bullets_arg = <<>> /\ new_bullets = <<>>
    /\ section_found = FALSE /\ start_idx = -1 /\ end_idx = -1
    /\ result = NoResult

InitClean ==
    /\ pc = "clean_bullets"
    /\ raw_lines \in Seqs(RawLineKinds, MaxLines)
    /\ raw = join(<<"\n">>, raw_lines)
    /\ cleaned = <<>>
    /\ NotInUI /\ NotReplacing

\* lines 38-65
CleanBullets ==
    /\ pc = "clean_bullets"
    /\ cleaned' = clean_bullets(raw)
    /\ pc' = "cleaned"
    /\ UNCHANGED <<raw_lines, raw, content, subject, bullet_points, uploaded, doc0,
                   paragraphs, new_title, bullets_arg, new_bullets, section_found,
                   start_idx, end_idx, result>>

NextClean == CleanBullets

SpecClean == InitClean /\ [][NextClean]_vars

-----------------------------------------------------------------------------
(* The "Update Resume & Get Feedback" button, up to the return of           *)
(* replace_first_project_safely; an exception it raises is not caught and  *)
(* ends the script run.                                                    *)

ContentLineKinds == {LineA, LineGlyphOnly, <<" ", "2", ")", " ", "b">>}

Subjects == {<<"N", "e", "w">>, <<" ">>}

UploadedDocs ==
    { <<HeadingPara, TitlePara, PlainPara, TitlePara>>,
      <<HeadingPara, TitlePara, PlainPara>>,
      <<HeadingPara, EmptyPara>>,
      <<TitlePara, PlainPara>> }

InitUI ==
    /\ pc = "ui"
    /\ raw_lines \in Seqs(ContentLineKinds, MaxContentLines)
    /\ content \in {None, join(<<"\n">>, raw_lines)}
    /\ raw_lines # <<>> => content # None
    /\ subject \in Subjects
    /\ uploaded \in UploadedDocs
    /\ bullet_points = <<>>
    /\ raw = <<>> /\ cleaned = <<>>
    /\ NotReplacing

\* lines 271-274: a blank title stops the script
ClickUpdate ==
    /\ pc = "ui"
    /\ pc' = IF strip(subject) = <<>> THEN "stopped" ELSE "generate"
    /\ UNCHANGED <<raw_lines, raw, cleaned, content, subject, bullet_points, uploaded,
                   doc0, paragraphs, new_title, bullets_arg, new_bullets,
                   section_found, start_idx, end_idx, result>>

\* lines 276-277
GenerateBulletPoints ==
    /\ pc = "generate"
    /\ bullet_points' = generate_bullet_points(content)
    /\ pc' = "open"
    /\ UNCHANGED <<raw_lines, raw, cleaned, content, subject, uploaded, doc0,
                   paragraphs, new_title, bullets_arg, new_bullets, section_found,
                   start_idx, end_idx, result>>

\* lines 280-281: the document is opened and handed over with the title and
\* the bullets
CallReplace ==
    /\ pc = "open"
    /\ pc' = "replace"
    /\ doc0' = uploaded /\ paragraphs' = uploaded
    /\ new_title' = subject
    /\ bullets_arg' = bullet_points /\ new_bullets' = bullet_points
    /\ section_found' = FALSE /\ start_idx' = -1 /\ end_idx' = -1
    /\ result' = NoResult
    /\ UNCHANGED <<raw_lines, raw, cleaned, content, subject, bullet_points, uploaded>>

NextUI ==
    \/ ClickUpdate
    \/ GenerateBulletPoints
    \/ CallReplace
    \/ Locate
    \/ DeleteOldContent
    \/ InsertNewContent

SpecUI == InitUI /\ [][NextUI]_vars
-----------------------------------------------------------------------------
(* Notions the claims are stated in, defined on characters and indices *)

Min(S) == CHOOSE x \in S : \A y \in S : x <= y

Max(S) == CHOOSE x \in S : \A y \in S : x >= y

\* the same character, or the two cases of one letter
EqNoCase(a, b) ==
    \/ a = b
    \/ a \in DOMAIN ToUpper /\ ToUpper[a] = b
    \/ b \in DOMAIN ToUpper /\ ToUpper[b] = a

ContainsNoCase(text, phrase) ==
    \E k \in 0..(Len(text) - Len(phrase)) :
        \A j \in 1..Len(phrase) : EqNoCase(text[k + j], phrase[j])

NonWsIdx(text) == {k \in 1..Len(text) : text[k] \notin Whitespace}

NonBlank(text) == NonWsIdx(text) # {}

Trimmed(text) ==
    IF NonBlank(text) THEN SubSeq(text, Min(NonWsIdx(text)), Max(NonWsIdx(text))) ELSE <<>>

\* the non-blank bullets, each trimmed, in order
TrimmedNonBlank(bullets) ==
    LET kept == SelectSeq(bullets, NonBlank)
    IN  [k \in 1..Len(kept) |-> Trimmed(kept[k])]

BoldFirst(para) == Len(para) >= 1 /\ para[1].bold = "True"

\* 0-based indices of the blocks that contain the heading phrase
HeadingIdxs(ps) ==
    {i \in 0..(Len(ps) - 1) : ContainsNoCase(para_text(ps[i + 1]), HEADING)}

\* 0-based indices of the non-blank blocks after the first heading block
RecordIdxs(ps) ==
    LET h == HeadingIdxs(ps)
    IN  IF h = {} THEN {}
        ELSE {j \in (Min(h) + 1)..(Len(ps) - 1) : NonBlank(para_text(ps[j + 1]))}

LocatorRan == pc \in {"delete", "insert", "returned", "raised"}

Located ==
    \/ pc \in {"delete", "insert", "returned"}
    \/ pc = "raised" /\ result.kind = "IndexError"

RewriteRan == pc = "returned" \/ (pc = "raised" /\ result.kind = "IndexError")

-----------------------------------------------------------------------------
(* Claims about replace_first_project_safely (specification Spec) *)

\* C1 (as claimed; refuted by the code): once the locator has produced
\* [start_idx, end_idx), the rewrite step completes and leaves exactly
\* len(blocks) - (end - start) + 1 + len(bullets) blocks, end == len(blocks)
\* included.
C1_RewriteCompletesWithCount ==
    RewriteRan =>
        /\ pc = "returned"
        /\ Len(paragraphs) = Len(doc0) - (end_idx - start_idx) + 1 + Len(new_bullets)

\* C2: after a successful call the blocks before start are the original
\* prefix blocks[0:start] and the blocks after the inserted ones are the
\* original suffix blocks[end:], each unchanged and in order.
C2_OutsideBlocksPreserved ==
    pc = "returned" =>
        LET n == Len(doc0) - end_idx
            first == start_idx + 1 + Len(new_bullets)
        IN  /\ Len(paragraphs) = first + n
            /\ \A i \in 0..(start_idx - 1) : paragraphs[i + 1] = doc0[i + 1]
            /\ \A i \in 0..(n - 1) : paragraphs[first + i + 1] = doc0[end_idx + i + 1]

C2_Witness ==
    /\ pc = "returned"
    /\ start_idx >= 1
    /\ end_idx >= start_idx + 2
    /\ end_idx < Len(doc0)
    /\ Len(new_bullets) >= 1

TitleAt(ps, i, title) ==
    /\ i < Len(ps)
    /\ para_text(ps[i + 1]) = title
    /\ BoldFirst(ps[i + 1])

BulletsAfter(ps, i, bullets) ==
    \A k \in 1..Len(bullets) :
        /\ i + k < Len(ps)
        /\ para_text(ps[i + k + 1]) = <<BULLET, " ">> \o bullets[k]

OldSuffixAfter(ps, i) ==
    /\ i < Len(ps)
    /\ end_idx < Len(doc0)
    /\ ps[i + 1] = doc0[end_idx + 1]

\* C3 (as claimed; refuted by the code): after a successful call the block at
\* start is the bold title block, followed by one block per given bullet, each
\* "U+2022 " + bullet, and then directly by the first block after the old
\* record.
C3_TitleThenGivenBullets ==
    pc = "returned" =>
        /\ TitleAt(paragraphs, start_idx, new_title)
        /\ BulletsAfter(paragraphs, start_idx, bullets_arg)
        /\ OldSuffixAfter(paragraphs, start_idx + 1 + Len(bullets_arg))

\* C3 (amended): after a successful call the block at start is the bold title
\* block, followed by one block per non-blank given bullet, in order, each
\* "U+2022 " + the trimmed bullet, and then directly by the first block after
\* the old record.
C3_TitleThenTrimmedBullets ==
    pc = "returned" =>
        /\ TitleAt(paragraphs, start_idx, new_title)
        /\ BulletsAfter(paragraphs, start_idx, TrimmedNonBlank(bullets_arg))
        /\ OldSuffixAfter(paragraphs, start_idx + 1 + Len(TrimmedNonBlank(bullets_arg)))

\* heading, bold old title, an old bullet, bold next title; two usable bullets
C3_Witness ==
    /\ pc = "returned"
    /\ start_idx = 1 /\ end_idx = 3 /\ Len(doc0) = 4
    /\ BoldFirst(doc0[2]) /\ ~BoldFirst(doc0[3]) /\ BoldFirst(doc0[4])
    /\ Len(bullets_arg) = 2
    /\ Len(TrimmedNonBlank(bullets_arg)) = 2
    /\ Len(paragraphs) = 5

\* the blocks after start, when the heading occurs exactly once and a
\* non-blank block follows it: start is the first such block
AfterStart(ps) == (Min(RecordIdxs(ps)) + 1)..(Len(ps) - 1)

\* heading exactly once, a non-blank block after it, and no boundary marker
\* after start
HeadingOnceNoBoundary(ps) ==
    /\ Cardinality(HeadingIdxs(ps)) = 1
    /\ LET r == RecordIdxs(ps)
       IN  /\ r # {}
           /\ \A j \in (Min(r) + 1)..(Len(ps) - 1) : ~BoldFirst(ps[j + 1])

\* no block after start has empty trimmed text
NoBlankAfterStart(ps) ==
    \A j \in AfterStart(ps) : NonBlank(para_text(ps[j + 1]))

\* C4 (as claimed; refuted by the code): heading exactly once, a non-empty
\* block after it and no boundary marker after start give end == len(blocks).
C4_EndIsLenWithoutBoundary ==
    (LocatorRan /\ HeadingOnceNoBoundary(doc0))
    => Located /\ end_idx = Len(doc0)

\* C4 (amended): heading exactly once, a non-empty block after it, and after
\* start neither a boundary marker nor a block with empty trimmed text give
\* end == len(blocks).
C4_EndIsLenWithoutBoundaryOrBlank ==
    (LocatorRan /\ HeadingOnceNoBoundary(doc0) /\ NoBlankAfterStart(doc0))
    => Located /\ end_idx = Len(doc0)

C4_Witness ==
    /\ Located
    /\ HeadingOnceNoBoundary(doc0)
    /\ NoBlankAfterStart(doc0)
    /\ AfterStart(doc0) # {}
    /\ end_idx = Len(doc0)

\* C5: when no block contains "PROJECT EXPERIENCE" case-insensitively the call
\* raises the section-not-found error, never the record-not-found error and
\* never returns.
C5_NoHeadingRaisesSectionNotFound ==
    (LocatorRan /\ HeadingIdxs(doc0) = {})
    => pc = "raised" /\ result = ValueError(MsgSectionNotFound)

C5_Witness ==
    /\ pc = "raised"
    /\ HeadingIdxs(doc0) = {}
    /\ Len(doc0) >= 2
    /\ \E i \in 1..Len(doc0) : NonBlank(para_text(doc0[i]))
    /\ result.msg = MsgSectionNotFound

\* C6: a heading with no non-blank block after it raises the record-not-found
\* error, whose message differs from the section-not-found one; the
\* section-not-found error is raised only without a heading and the
\* record-not-found error only with one.
C6_RecordNotFoundDistinct ==
    LocatorRan =>
        LET h == HeadingIdxs(doc0)
        IN  /\ (h # {} /\ RecordIdxs(doc0) = {})
                   => (pc = "raised" /\ result = ValueError(MsgRecordNotFound))
            /\ result = ValueError(MsgSectionNotFound) => h = {}
            /\ result = ValueError(MsgRecordNotFound) => h # {}
            /\ MsgRecordNotFound # MsgSectionNotFound

C6_Witness ==
    /\ pc = "raised"
    /\ HeadingIdxs(doc0) # {}
    /\ RecordIdxs(doc0) = {}
    /\ Len(doc0) >= Min(HeadingIdxs(doc0)) + 3
    /\ result.msg = MsgRecordNotFound

\* C9 (as claimed; refuted by the code): when the heading phrase occurs, start
\* is the index of the first non-blank block after the first block that
\* contains the phrase, also when a later block contains the phrase again.
C9_StartIsFirstNonBlankAfterHeading ==
    Located =>
        LET r == RecordIdxs(doc0)
        IN  r # {} /\ start_idx = Min(r)

\* C10 (as claimed; refuted by the code): whenever the call ends by raising,
\* the document's blocks are what they were before the call.
C10_FailureLeavesDocument ==
    pc = "raised" => paragraphs = doc0

-----------------------------------------------------------------------------
(* Claim about clean_bullets (specification SpecClean) *)

StartsWithGlyph(line) == line # <<>> /\ line[1] = BULLET

\* some character is neither a bullet glyph, nor a hyphen, nor whitespace
HasBody(line) == \E k \in 1..Len(line) : line[k] \notin ({BULLET, "-"} \cup Whitespace)

\* entry is what is left of the line once a leading part that starts with the
\* glyph, and the surrounding whitespace, are taken off
GlyphStripped(entry, line) ==
    LET t == Trimmed(line)
    IN  /\ entry # <<>>
        /\ entry = Trimmed(entry)
        /\ \E k \in 1..(Len(t) - 1) : entry = SubSeq(t, k + 1, Len(t))

FirstThreeStripped ==
    /\ Len(cleaned) = 3
    /\ \A k \in 1..3 : GlyphStripped(cleaned[k], raw_lines[k])

\* C7 (as claimed; refuted by the code): n >= 3 lines that each start with a
\* bullet glyph give exactly 3 entries, the first three lines in order with
\* the leading glyph stripped; never more than 3 entries for any input.
C7_ThreeFromGlyphLines ==
    pc = "cleaned" =>
        /\ Len(cleaned) <= 3
        /\ (/\ Len(raw_lines) >= 3
            /\ \A k \in 1..Len(raw_lines) : StartsWithGlyph(raw_lines[k]))
           => FirstThreeStripped

\* C7 (amended): n >= 3 lines that each start with a bullet glyph and each
\* hold some character other than bullet glyphs, hyphens and whitespace give
\* exactly 3 entries, the first three lines in order with the leading glyph
\* (and the markers after it) stripped; never more than 3 entries for any
\* input.
C7_ThreeFromUsableGlyphLines ==
    pc = "cleaned" =>
        /\ Len(cleaned) <= 3
        /\ (/\ Len(raw_lines) >= 3
            /\ \A k \in 1..Len(raw_lines) :
                   StartsWithGlyph(raw_lines[k]) /\ HasBody(raw_lines[k]))
           => FirstThreeStripped

C7_Witness ==
    /\ pc = "cleaned"
    /\ Len(raw_lines) = 5
    /\ \A k \in 1..Len(raw_lines) : StartsWithGlyph(raw_lines[k]) /\ HasBody(raw_lines[k])
    /\ Cardinality({raw_lines[k] : k \in 1..3}) = 3
    /\ FirstThreeStripped

-----------------------------------------------------------------------------
(* Claim about generate_bullet_points and the hand-over (specification SpecUI) *)

Generated == pc \in {"open", "replace", "delete", "insert", "returned", "raised"}

HandedOver == pc \in {"replace", "delete", "insert", "returned", "raised"}

Usable == clean_bullets(strip(IF content = None THEN <<>> ELSE content))

\* C8: whenever cleanup leaves 0 or 1 usable bullets (empty or missing content
\* included) generate_bullet_points returns the two fallback bullets verbatim,
\* and the list handed to replace_first_project_safely has 2 or 3 entries, all
\* non-blank.
C8_FallbackKeepsTwoOrThree ==
    /\ (Generated /\ Len(Usable) < 2) => bullet_points = <<FALLBACK_1, FALLBACK_2>>
    /\ HandedOver =>
           /\ bullets_arg = bullet_points
           /\ Len(bullets_arg) \in {2, 3}
           /\ \A k \in 1..Len(bullets_arg) : NonBlank(bullets_arg[k])

C8_Witness ==
    /\ pc = "replace"
    /\ content # None
    /\ Len(Usable) = 1
    /\ bullets_arg = <<FALLBACK_1, FALLBACK_2>>

=============================================================================
